---- MODULE Spec2Model ----
(***************************************************************************)
(* Skip-vote coordinator of slack-spotify-playlift.                        *)
(*                                                                         *)
(* The state is the Redis store (vote records, per-polarity member sets,   *)
(* their TTLs), the QStash jobs published so far, and the position and     *)
(* locals of every request handler in flight.  Each handler is cut at its  *)
(* awaits: one action per store / Slack / Spotify / QStash round trip, so  *)
(* that handlers interleave exactly where the Node event loop lets them.   *)
(***************************************************************************)
EXTENDS Integers, FiniteSets, Sequences, TLC

\* ------------------------------------------------------------------ bounds
\* Distinct values Date.now() returns over the run.
MaxId == 2
\* /process-skip requests received over the run.
MaxDeliveries == 2
\* Slack reaction events received over the run.
MaxEvents == 2
\* The same for the run with concurrent /process-skip requests.
MaxRaceDeliveries == 2
MaxRaceEvents == 1
\* Reaction events of the run that follows one vote.
MaxVoteEvents == 3
MaxTallyEvents == 2
MaxIdemEvents == 2
MaxReactDeliveries == 1
\* The same for the run with the clock.
MaxExpiryDeliveries == 1
MaxExpiryEvents == 2
\* The same for the run with two /skip commands.
MaxPairDeliveries == 1
MaxPairEvents == 1
MaxResolveDeliveries == 1
MaxResolveEvents == 1
MaxSkipDeliveries == 1
MaxSkipEvents == 1
MaxPlayerDeliveries == 1
MaxPlayerEvents == 1
MaxTrack == 2
MaxCallers == 2
MaxCalls == 4
MaxDrops == 2
MaxLoads == 2

\* ------------------------------------------------------------ program data
\* part_002 78, in seconds.
SKIP_VOTE_TTL == 60 * 15
\* Length of one clock tick, in seconds: half a TTL.
TickSeconds == SKIP_VOTE_TTL \div 2
TTLTicks == SKIP_VOTE_TTL \div TickSeconds

NoTTL == 0 - 1

\* Channels with a channel:{id} entry holding Spotify tokens, and one without.
Connected == {"c1", "c2"}
Unconnected == {"c0"}
\* Teams with a team:{id} entry (the app is installed), and one without.
Installed == {"T1"}
Uninstalled == {"T0"}

Users == {"u1", "u2"}
Ids == 1..MaxId
Pols == {"up", "down"}
Keys == Connected \X Ids

\* Handler instances: the requests being served at one time.
Skips == {1, 2}
Deliveries == {1, 2}
Reacts == {1, 2}

\* message.ts of the announcement posted by /skip instance s: Slack hands
\* out a distinct ts per message. 0 is the ts of some other message.
OtherTs == 0
MessageTs == Skips \cup {OtherTs}

UpAliases == {"+1", "thumbsup", "thumbs_up"}
DownAliases == {"-1", "thumbsdown", "thumbs_down"}
Reactions == UpAliases \cup DownAliases \cup {"heart"}

VARIABLES
    env,        \* process.env: which QStash clients were constructed
    now,        \* clock, in ticks
    lastId,     \* last value Date.now() returned (0: not called yet)
    rec,        \* skipVote:{channelId}:{skipId} keys
    sets,       \* skipVoteUsers:{skipId}:{thumbsUp|thumbsDown} keys
    triggers,   \* QStash jobs published: bodies {channelId, skipId, teamId}
    sk,         \* POST /skip handlers
    dl,         \* POST /process-skip handlers
    re,         \* POST /emoji-callback handlers
    nDeliver,   \* /process-skip requests received
    nEvent,     \* reaction events received
    skips,      \* history: skip commands sent to Spotify, per vote key
    posts,      \* history: outcome announcements posted, per vote key
    created,    \* history: setSkipVote writes, per vote key
    resolvedKeys, \* history: keys a delivery deleted, not written since
    added,      \* history: per vote key and polarity, the users whose last
                \* reaction event applied to the vote was an add
    player,     \* Spotify: the track playing in each connected channel
    conn,       \* the ioredis client of the process and connectionPromise
    ec          \* callers of ensureConnection

vars == <<env, now, lastId, rec, sets, triggers, sk, dl, re, nDeliver, nEvent,
          skips, posts, created, resolvedKeys, added, player, conn, ec>>

\* ------------------------------------------------------------------- store
NoRec ==
    [live |-> FALSE, messageTs |-> OtherTs, exp |-> NoTTL, resolved |-> FALSE,
     trackName |-> 0]
NoSet == [members |-> {}, exp |-> NoTTL]

\* redisClient.get(`skipVote:${channelId}:${skipId}`): null for a key that is
\* not in the store.
getRecord(store, channelId, skipId) ==
    IF <<channelId, skipId>> \in Keys THEN store[<<channelId, skipId>>] ELSE NoRec

\* redisClient.smembers(key) || []
smembers(ss, skipId, pol) == ss[<<skipId, pol>>].members

\* An add that takes the user out of the set of the other polarity.
saddExclusive(ss, skipId, pol, userId) ==
    [ss EXCEPT ![<<skipId, pol>>].members = @ \cup {userId},
               ![<<skipId, IF pol = "up" THEN "down" ELSE "up">>] =
                   IF @.members \ {userId} = {} THEN NoSet
                   ELSE [@ EXCEPT !.members = @ \ {userId}]]

\* redisClient.sadd(key, userId): creates the key (without a TTL) when absent.
sadd(ss, skipId, pol, userId) ==
    [ss EXCEPT ![<<skipId, pol>>].members = @ \cup {userId}]

\* srem written as SPOP: some member leaves the set, userId or another.
sremPop(ss, skipId, pol, userId) ==
    [ss EXCEPT ![<<skipId, pol>>] =
        IF Cardinality(@.members) <= 1 THEN NoSet
        ELSE [@ EXCEPT !.members = @ \ {CHOOSE m \in @ : TRUE}]]

\* srem written as a DEL of the set key.
sremDeletesKey(ss, skipId, pol, userId) ==
    [ss EXCEPT ![<<skipId, pol>>] = NoSet]

\* redisClient.srem(key, userId): Redis drops a set key with its last member.
srem(ss, skipId, pol, userId) ==
    [ss EXCEPT ![<<skipId, pol>>] =
        IF @.members \ {userId} = {} THEN NoSet
        ELSE [@ EXCEPT !.members = @ \ {userId}]]

\* An EXPIRE that is never sent.
expireNoop(ss, skipId, pol, t) == ss

\* redisClient.expire(key, SKIP_VOTE_TTL): nothing for a key that is absent.
expire(ss, skipId, pol, t) ==
    [ss EXCEPT ![<<skipId, pol>>] =
        IF @.members = {} THEN @ ELSE [@ EXCEPT !.exp = t + TTLTicks]]

\* A record written with the messageTs: null of app.js 251.
setRecordNoRef(store, channelId, skipId, messageTs, trackName, t) ==
    [store EXCEPT ![<<channelId, skipId>>] =
        [live |-> TRUE, messageTs |-> OtherTs, exp |-> t + TTLTicks,
         resolved |-> FALSE, trackName |-> trackName]]

\* redisClient.set(key, JSON.stringify(voteData), 'EX', SKIP_VOTE_TTL)
setRecord(store, channelId, skipId, messageTs, trackName, t) ==
    [store EXCEPT ![<<channelId, skipId>>] =
        [live |-> TRUE, messageTs |-> messageTs, exp |-> t + TTLTicks,
         resolved |-> FALSE, trackName |-> trackName]]

\* deleteSkipVote without the record key among the keys it deletes.
delRecordKeepsKey(store, channelId, skipId) == store

\* deleteSkipVote: one DEL of the record key and both member set keys.
delRecord(store, channelId, skipId) ==
    [store EXCEPT ![<<channelId, skipId>>] = NoRec]

delSets(ss, skipId) ==
    [ss EXCEPT ![<<skipId, "up">>] = NoSet, ![<<skipId, "down">>] = NoSet]

\* A lookup without the test for a key whose value is gone: a dead key
\* compares like a record.
matchingNoNullCheck(store, channelId, messageTs) ==
    {i \in Ids : <<channelId, i>> \in Keys
                 /\ store[<<channelId, i>>].messageTs = messageTs}

\* A lookup that takes any vote of the channel, whatever its messageTs.
matchingAnyVote(store, channelId, messageTs) ==
    {i \in Ids : <<channelId, i>> \in Keys /\ store[<<channelId, i>>].live}

\* findSkipVoteByMessageTs: the skipIds of the channel's keys whose record
\* carries messageTs.
matching(store, channelId, messageTs) ==
    {i \in Ids : <<channelId, i>> \in Keys
                 /\ store[<<channelId, i>>].live
                 /\ store[<<channelId, i>>].messageTs = messageTs}

\* ---------------------------------------------------------------- handlers
SkIdle ==
    [pc |-> "idle", ch |-> "none", team |-> "none", id |-> 0, ts |-> OtherTs,
     trackName |-> 0, resp |-> "none"]

\* A /process-skip handler: its position, the request body, the locals
\* (resolved, up, down, outcome), the response, and its history: whether
\* QStash sent the request (genuine), whether it arrived after a delivery
\* had deleted the vote (late), what the load found, the counts the decision
\* was made on (snap) and those announced (tally), the exception caught
\* (fault), Spotify's answer, the store accesses, skip commands and
\* announcements it made, and, while getSkipVote is reading, the sizes the
\* two member sets have had in the store since its GET (seen).
DlIdle == [pc |-> "idle", ch |-> "none", id |-> 0, trackName |-> 0,
           resolved |-> FALSE, up |-> {}, down |-> {}, outcome |-> "none",
           resp |-> "none",
           genuine |-> FALSE, late |-> FALSE, loaded |-> "none",
           snap |-> <<>>, tally |-> <<>>, fault |-> "none", skipRes |-> "none",
           deleted |-> FALSE, reads |-> 0, writes |-> 0, cmds |-> 0, msgs |-> 0,
           seen |-> {}]

\* A /emoji-callback handler: pol is the polarity it sent a command for and
\* reply what Redis answered to that SADD or SREM, the number of members
\* added or removed.
ReIdle == [pc |-> "idle", ch |-> "none", id |-> 0, type |-> "none", pol |-> "none",
           reply |-> 0, resp |-> "none", fault |-> "none", found |-> "none"]

\* A request is served by the lowest-numbered instance that is free.
\* The client of the process: how many Redis objects were constructed,
\* global.__redisClient, redisClient.status, connectionPromise, and history:
\* evaluations of createRedisClient (loads), calls of ensureConnection,
\* connect() calls it made and how many of them have not settled (inflight),
\* whether the last of them was rejected (failed), connections closed.
ConnInit ==
    [clients |-> 1, global |-> TRUE, status |-> "wait", promise |-> "null",
     loads |-> 1, calls |-> 0, connects |-> 0, inflight |-> 0, failed |-> FALSE,
     drops |-> 0]

Callers == 1..MaxCallers

\* A caller of ensureConnection: where it is, and the status of the client
\* at the moment it got its answer.
EcIdle == [pc |-> "idle", status |-> "none"]

Lowest(free, x) == x \in free /\ \A y \in free : x <= y

Init ==
    /\ env \in [receiver : BOOLEAN, qstash : BOOLEAN]
    /\ now = 0
    /\ lastId = 0
    /\ rec = [k \in Keys |-> NoRec]
    /\ sets = [k \in Ids \X Pols |-> NoSet]
    /\ triggers = {}
    /\ sk = [s \in Skips |-> SkIdle]
    /\ dl = [d \in Deliveries |-> DlIdle]
    /\ re = [e \in Reacts |-> ReIdle]
    /\ nDeliver = 0
    /\ nEvent = 0
    /\ skips = [k \in Keys |-> 0]
    /\ posts = [k \in Keys |-> 0]
    /\ created = [k \in Keys |-> 0]
    /\ resolvedKeys = {}
    /\ added = [k \in Connected \X Ids \X Pols |-> {}]
    /\ player = [c \in Connected |-> 1]
    /\ conn = ConnInit
    /\ ec = [c \in Callers |-> EcIdle]

\* ------------------------------------------------------------- POST /skip
\* Date.now(): the clock value of the last call, or a later one.
DateNow(prev) == {i \in Ids : i = prev \/ i = prev + 1}

SkDone(text) == [SkIdle EXCEPT !.pc = "done", !.resp = text]

\* The checks of /skip without the one on the QStash client.
SkipRefusalNoClientCheck(c, qstash, track) ==
    IF c \notin Connected THEN "not_connected"
    ELSE IF track = "error" THEN "failed"
    ELSE IF track = "nothing" THEN "no_track"
    ELSE "none"

\* app.js 218-242: the early returns of /skip, in the order of the code:
\* channel without a Spotify session, no QStash client, no playing track
\* (getCurrentlyPlayingTrack throwing is caught at 289).
SkipRefusal(c, qstash, track) ==
    IF c \notin Connected THEN "not_connected"
    ELSE IF ~qstash THEN "no_qstash"
    ELSE IF track = "error" THEN "failed"
    ELSE IF track = "nothing" THEN "no_track"
    ELSE "none"

\* app.js 215-253: the team token and the channel are read, the QStash
\* client and the playing track are checked, and the vote gets its id.
\* storeOk: the two store reads succeed; track: what Spotify reports.
SkipBegin(s, c, t, storeOk, track) ==
    /\ sk[s].pc = "idle"
    /\ IF ~storeOk \/ t \notin Installed
         THEN sk' = [sk EXCEPT ![s] = SkDone("failed")] /\ UNCHANGED lastId
       ELSE IF SkipRefusal(c, env.qstash, track) # "none"
         THEN /\ sk' = [sk EXCEPT ![s] = SkDone(SkipRefusal(c, env.qstash, track))]
              /\ UNCHANGED lastId
       ELSE \E i \in DateNow(lastId) :
              /\ lastId' = i
              /\ sk' = [sk EXCEPT ![s] = [pc |-> "post", ch |-> c, team |-> t,
                                          id |-> i, ts |-> OtherTs,
                                          trackName |-> player[c], resp |-> "none"]]
    /\ UNCHANGED <<env, player, conn, ec, now, rec, sets, triggers, dl, re, nDeliver, nEvent,
                   skips, posts, created, resolvedKeys, added>>

\* app.js 255-264: slack.postSkipVoteMessage; a Slack error is thrown and
\* caught at 289. The announcement of handler s gets the ts s, kept in
\* skipVote.messageTs.
SkipPost(s, slackOk) ==
    /\ sk[s].pc = "post"
    /\ sk' = [sk EXCEPT ![s] = IF slackOk THEN [@ EXCEPT !.pc = "store", !.ts = s]
                               ELSE SkDone("failed")]
    /\ UNCHANGED <<env, player, conn, ec, now, lastId, rec, sets, triggers, dl, re, nDeliver, nEvent,
                   skips, posts, created, resolvedKeys, added>>

\* app.js 266-271, part_002 119-139: setSkipVote with empty vote sets writes
\* the record key only.
SkipStore(s, storeOk) ==
    /\ sk[s].pc = "store"
    /\ IF storeOk
         THEN /\ rec' = setRecord(rec, sk[s].ch, sk[s].id, sk[s].ts, sk[s].trackName, now)
              /\ created' = [created EXCEPT ![<<sk[s].ch, sk[s].id>>] = @ + 1]
              /\ resolvedKeys' = resolvedKeys \ {<<sk[s].ch, sk[s].id>>}
              /\ added' = [added EXCEPT ![<<sk[s].ch, sk[s].id, "up">>] = {},
                                        ![<<sk[s].ch, sk[s].id, "down">>] = {}]
              /\ sk' = [sk EXCEPT ![s].pc = "publish"]
       ELSE /\ sk' = [sk EXCEPT ![s] = SkDone("failed")]
            /\ UNCHANGED <<rec, created, resolvedKeys, added>>
    /\ UNCHANGED <<env, player, conn, ec, now, lastId, sets, triggers, dl, re, nDeliver, nEvent,
                   skips, posts>>

\* app.js 275-287: qstash.publishJSON schedules the /process-skip call.
SkipPublish(s, qstashOk) ==
    /\ sk[s].pc = "publish"
    /\ IF qstashOk
         THEN /\ triggers' = triggers \cup
                    {[ch |-> sk[s].ch, id |-> sk[s].id, team |-> sk[s].team]}
              /\ sk' = [sk EXCEPT ![s] = SkDone("started")]
       ELSE /\ sk' = [sk EXCEPT ![s] = SkDone("failed")]
            /\ UNCHANGED triggers
    /\ UNCHANGED <<env, player, conn, ec, now, lastId, rec, sets, dl, re, nDeliver, nEvent,
                   skips, posts, created, resolvedKeys, added>>

\* ----------------------------------------------------- POST /process-skip
\* A check that only asks for a signature header.
VerifiedIfPresent(sig) == sig # "missing"

\* receiver.verify({signature, body}) resolves for a signature QStash made
\* over this body and throws for any other.
Verified(sig) == sig = "valid"

\* The decision with a strict majority.
KeepTrackStrict(thumbsUpCount, thumbsDownCount) == thumbsUpCount > thumbsDownCount

\* app.js 356: thumbsUpCount >= thumbsDownCount keeps the track.
KeepTrack(thumbsUpCount, thumbsDownCount) == thumbsUpCount >= thumbsDownCount

\* POST /v1/me/player/next: the player of the channel moves to its next
\* track.
next(pl, channelId) ==
    IF channelId \in DOMAIN pl THEN [pl EXCEPT ![channelId] = @ + 1] ELSE pl

\* skipTrack without its try/catch.
skipTrackThrows(http) == IF http = "ok" THEN "success" ELSE "throw"

\* spotify.js 87-104: skipTrack catches the HTTP error and returns
\* {success: false}; it never throws.
skipTrack(http) == IF http = "ok" THEN "success" ELSE "failure"

\* Requests QStash sends for a published job.
Genuine == {[ch |-> j.ch, id |-> j.id, team |-> j.team, sig |-> "valid"] : j \in triggers}

Fail500(d, why) ==
    [dl[d] EXCEPT !.pc = "done", !.resp = "500", !.fault = why, !.up = {}, !.down = {},
                  !.seen = {}]
Ack200(d) ==
    [dl[d] EXCEPT !.pc = "done", !.resp = "200", !.up = {}, !.down = {}, !.seen = {}]

\* The sizes of the two member sets of a vote in the store.
Counts(ss, skipId) ==
    <<Cardinality(smembers(ss, skipId, "up")), Cardinality(smembers(ss, skipId, "down"))>>

\* The store has become ss: every getSkipVote that is between its GET and
\* its last SMEMBERS notes the sizes.
Observe(dlv, ss) ==
    [d \in Deliveries |->
        IF dlv[d].pc \in {"up", "down"}
          THEN [dlv[d] EXCEPT !.seen = @ \cup {Counts(ss, dlv[d].id)}]
        ELSE dlv[d]]

\* app.js 296-335: the signature check, made only when a Receiver exists;
\* then getBotToken, which throws for a team without a token, and
\* getChannel: a channel without an entry is acknowledged. Both read keys
\* that no handler of the model writes. storeOk: the two reads succeed.
DeliverStart(d, rq, storeOk) ==
    /\ Lowest({x \in Deliveries : dl[x].pc \in {"idle", "done"}}, d)
    /\ nDeliver' = nDeliver + 1
    /\ LET fresh == [DlIdle EXCEPT !.ch = rq.ch, !.id = rq.id,
                                   !.genuine = (rq.sig = "valid"),
                                   !.late = (<<rq.ch, rq.id>> \in resolvedKeys)]
           read  == [fresh EXCEPT !.reads = 1]
       IN  dl' = [dl EXCEPT ![d] =
                IF env.receiver /\ (rq.sig = "missing" \/ ~Verified(rq.sig))
                  THEN [fresh EXCEPT !.pc = "done", !.resp = "401", !.fault = "auth"]
                ELSE IF ~storeOk
                  THEN [read EXCEPT !.pc = "done", !.resp = "500", !.fault = "store"]
                ELSE IF rq.team \notin Installed
                  THEN [read EXCEPT !.pc = "done", !.resp = "500", !.fault = "team"]
                ELSE IF rq.ch \notin Connected
                  THEN [read EXCEPT !.pc = "done", !.resp = "200"]
                ELSE [read EXCEPT !.pc = "get"]]
    /\ UNCHANGED <<env, player, conn, ec, now, lastId, rec, sets, triggers, sk, re, nEvent,
                   skips, posts, created, resolvedKeys, added>>

\* app.js 337-341, part_002 101-104: the GET of the record key.
DeliverGet(d, storeOk) ==
    /\ dl[d].pc = "get"
    /\ dl' = [dl EXCEPT ![d] =
                IF ~storeOk THEN [Fail500(d, "store") EXCEPT !.reads = @ + 1]
                ELSE IF ~getRecord(rec, dl[d].ch, dl[d].id).live
                  THEN [Ack200(d) EXCEPT !.reads = @ + 1, !.loaded = "absent"]
                ELSE [@ EXCEPT !.pc = "up", !.reads = @ + 1, !.loaded = "present",
                               !.resolved = getRecord(rec, dl[d].ch, dl[d].id).resolved,
                               !.trackName = getRecord(rec, dl[d].ch, dl[d].id).trackName,
                               !.seen = {Counts(sets, dl[d].id)}]]
    /\ UNCHANGED <<env, player, conn, ec, now, lastId, rec, sets, triggers, sk, re, nDeliver, nEvent,
                   skips, posts, created, resolvedKeys, added>>

\* part_002 109: SMEMBERS of the thumbsUp key.
DeliverUp(d, storeOk) ==
    /\ dl[d].pc = "up"
    /\ dl' = [dl EXCEPT ![d] =
                IF ~storeOk THEN [Fail500(d, "store") EXCEPT !.reads = @ + 1]
                ELSE [@ EXCEPT !.pc = "down", !.reads = @ + 1,
                               !.up = smembers(sets, dl[d].id, "up")]]
    /\ UNCHANGED <<env, player, conn, ec, now, lastId, rec, sets, triggers, sk, re, nDeliver, nEvent,
                   skips, posts, created, resolvedKeys, added>>

\* part_002 110-116, app.js 343-362: SMEMBERS of the thumbsDown key; the
\* record was parsed at 106, so its resolved flag is the one the GET saw.
\* Then the resolved check, the counts and the decision.
DeliverDown(d, storeOk) ==
    /\ dl[d].pc = "down"
    /\ LET dn == smembers(sets, dl[d].id, "down")
       IN  dl' = [dl EXCEPT ![d] =
                IF ~storeOk THEN [Fail500(d, "store") EXCEPT !.reads = @ + 1]
                ELSE IF dl[d].resolved
                  THEN [Ack200(d) EXCEPT !.reads = @ + 1]
                ELSE IF KeepTrack(Cardinality(dl[d].up), Cardinality(dn))
                  THEN [@ EXCEPT !.pc = "post", !.reads = @ + 1, !.down = dn,
                                 !.outcome = "kept", !.seen = {},
                                 !.snap = <<Cardinality(dl[d].up), Cardinality(dn)>>]
                ELSE [@ EXCEPT !.pc = "skip", !.reads = @ + 1, !.down = dn,
                               !.seen = {},
                               !.snap = <<Cardinality(dl[d].up), Cardinality(dn)>>]]
    /\ UNCHANGED <<env, player, conn, ec, now, lastId, rec, sets, triggers, sk, re, nDeliver, nEvent,
                   skips, posts, created, resolvedKeys, added>>

\* A resolution that announces the skip and leaves the command for later.
DeliverSkipDeferred(d, http) ==
    /\ dl[d].pc = "skip"
    /\ dl' = [dl EXCEPT ![d] = [@ EXCEPT !.pc = "post", !.outcome = "skipped"]]
    /\ UNCHANGED <<env, player, conn, ec, now, lastId, rec, sets, triggers, sk, re, nDeliver, nEvent,
                   skips, posts, created, resolvedKeys, added>>

\* app.js 360-361, spotify.js 87-104: the skip command, POST
\* /v1/me/player/next with the channel's token; http is Spotify's answer.
\* The player moves on from whatever it is playing.
DeliverSkip(d, http) ==
    /\ dl[d].pc = "skip"
    /\ skips' = [skips EXCEPT ![<<dl[d].ch, dl[d].id>>] = @ + 1]
    /\ player' = IF skipTrack(http) = "success" THEN next(player, dl[d].ch) ELSE player
    /\ dl' = [dl EXCEPT ![d] =
                IF skipTrack(http) \notin {"success", "failure"}
                  THEN [Fail500(d, "spotify") EXCEPT !.cmds = @ + 1, !.skipRes = http]
                ELSE [@ EXCEPT !.pc = "post", !.cmds = @ + 1, !.skipRes = http,
                               !.outcome = "skipped"]]
    /\ UNCHANGED <<env, conn, ec, now, lastId, rec, sets, triggers, sk, re, nDeliver, nEvent,
                   posts, created, resolvedKeys, added>>

\* An announcement that counts the member sets as they are when it is posted.
AnnouncedFromStore(d) ==
    <<Cardinality(smembers(sets, dl[d].id, "up")),
      Cardinality(smembers(sets, dl[d].id, "down"))>>

\* app.js 349-350, 364: the message text carries thumbsUpCount and
\* thumbsDownCount, the sizes of the sets the handler loaded.
Announced(d) == <<Cardinality(dl[d].up), Cardinality(dl[d].down)>>

\* app.js 364-365, slack.js 8-17: the outcome announcement; postMessage
\* throws when Slack answers not ok or the call fails, caught at 371.
DeliverPost(d, slackOk) ==
    /\ dl[d].pc = "post"
    /\ IF slackOk
         THEN /\ posts' = [posts EXCEPT ![<<dl[d].ch, dl[d].id>>] = @ + 1]
              /\ dl' = [dl EXCEPT ![d] =
                          [@ EXCEPT !.pc = "delete", !.msgs = @ + 1,
                                    !.tally = Announced(d)]]
       ELSE /\ dl' = [dl EXCEPT ![d] = Fail500(d, "slack")]
            /\ UNCHANGED posts
    /\ UNCHANGED <<env, player, conn, ec, now, lastId, rec, sets, triggers, sk, re, nDeliver, nEvent,
                   skips, created, resolvedKeys, added>>

\* app.js 367-370, part_002 167-174: deleteSkipVote, then 200.
DeliverDelete(d, storeOk) ==
    /\ dl[d].pc = "delete"
    /\ IF storeOk
         THEN /\ rec' = delRecord(rec, dl[d].ch, dl[d].id)
              /\ sets' = delSets(sets, dl[d].id)
              /\ resolvedKeys' = resolvedKeys \cup {<<dl[d].ch, dl[d].id>>}
              /\ dl' = Observe([dl EXCEPT ![d] =
                                  [Ack200(d) EXCEPT !.writes = @ + 1, !.deleted = TRUE]],
                               sets')
       ELSE /\ dl' = [dl EXCEPT ![d] = Fail500(d, "store")]
            /\ UNCHANGED <<rec, sets, resolvedKeys>>
    /\ UNCHANGED <<env, player, conn, ec, now, lastId, triggers, sk, re, nDeliver, nEvent,
                   skips, posts, created, added>>

\* --------------------------------------------------- POST /emoji-callback
\* A test that takes every reaction that is not a thumbs-down for a
\* thumbs-up.
PolOfLoose(reaction) == IF reaction \in DownAliases THEN "down" ELSE "up"

\* app.js 426, 429, 435, 438: the reaction names that count as a vote.
PolOf(reaction) ==
    IF reaction = "+1" \/ reaction = "thumbsup" \/ reaction = "thumbs_up" THEN "up"
    ELSE IF reaction = "-1" \/ reaction = "thumbsdown" \/ reaction = "thumbs_down"
      THEN "down"
    ELSE "none"

\* The handler has no try/catch: an exception leaves it as a rejected
\* promise and the handler writes no response.
Reject(why) == [ReIdle EXCEPT !.pc = "done", !.resp = "rejected", !.fault = why]
Ok200(what) == [ReIdle EXCEPT !.pc = "done", !.resp = "200", !.found = what]

\* app.js 378-422, part_002 176-193: an event arrives and is correlated
\* with a vote by the ts of its message. type "message" stands for every
\* event that is not a reaction to a message.
ReactFind(e, c, ts, type, storeOk) ==
    /\ Lowest({x \in Reacts : re[x].pc \in {"idle", "done"}}, e)
    /\ nEvent' = nEvent + 1
    /\ IF type \notin {"reaction_added", "reaction_removed"}
         THEN storeOk /\ re' = [re EXCEPT ![e] = Ok200("ignored")]
       ELSE IF ~storeOk
         THEN re' = [re EXCEPT ![e] = Reject("store")]
       ELSE IF matching(rec, c, ts) = {}
         THEN re' = [re EXCEPT ![e] = Ok200("absent")]
       ELSE \E i \in matching(rec, c, ts) :
              re' = [re EXCEPT ![e] =
                       IF rec[<<c, i>>].resolved THEN Ok200("resolved")
                       ELSE [ReIdle EXCEPT !.pc = "apply", !.ch = c, !.id = i,
                                           !.type = type, !.found = "present"]]
    /\ UNCHANGED <<env, player, conn, ec, now, lastId, rec, sets, triggers, sk, dl, nDeliver,
                   skips, posts, created, resolvedKeys, added>>

\* app.js 421-441: ev.user and ev.reaction are read here and nowhere before.
\* addThumbsUp / addThumbsDown begin with SADD (part_002 144, 152);
\* removeThumbsUp / removeThumbsDown are one SREM (159, 164); any other
\* reaction name touches nothing.
ReactApply(e, u, reaction, storeOk) ==
    /\ re[e].pc = "apply"
    /\ LET pol == PolOf(reaction)
           id  == re[e].id
           was == IF reaction \in UpAliases THEN "up"
                  ELSE IF reaction \in DownAliases THEN "down" ELSE "none"
       IN  IF pol = "none"
             THEN /\ storeOk
                  /\ re' = [re EXCEPT ![e].pc = "reread"]
                  /\ IF was = "none" THEN UNCHANGED added
                     ELSE added' = [added EXCEPT ![<<re[e].ch, id, was>>] =
                            IF re[e].type = "reaction_added" THEN @ \cup {u} ELSE @ \ {u}]
                  /\ UNCHANGED sets
           ELSE IF ~storeOk
             THEN /\ re' = [re EXCEPT ![e] = Reject("store")]
                  /\ UNCHANGED <<sets, added>>
           ELSE IF re[e].type = "reaction_added"
             THEN /\ sets' = sadd(sets, id, pol, u)
                  /\ added' = IF was = "none" THEN added
                              ELSE [added EXCEPT ![<<re[e].ch, id, was>>] = @ \cup {u}]
                  /\ re' = [re EXCEPT ![e].pc = "expire", ![e].pol = pol,
                                      ![e].reply = IF u \in smembers(sets, id, pol)
                                                     THEN 0 ELSE 1]
           ELSE /\ sets' = srem(sets, id, pol, u)
                /\ added' = IF was = "none" THEN added
                            ELSE [added EXCEPT ![<<re[e].ch, id, was>>] = @ \ {u}]
                /\ re' = [re EXCEPT ![e].pc = "reread", ![e].pol = pol,
                                    ![e].reply = IF u \in smembers(sets, id, pol)
                                                   THEN 1 ELSE 0]
    /\ dl' = Observe(dl, sets')
    /\ UNCHANGED <<env, player, conn, ec, now, lastId, rec, triggers, sk, nDeliver, nEvent,
                   skips, posts, created, resolvedKeys>>

\* part_002 146, 154: EXPIRE of the set key just added to.
ReactExpire(e, storeOk) ==
    /\ re[e].pc = "expire"
    /\ IF storeOk
         THEN /\ sets' = expire(sets, re[e].id, re[e].pol, now)
              /\ re' = [re EXCEPT ![e].pc = "reread"]
       ELSE /\ re' = [re EXCEPT ![e] = Reject("store")]
            /\ UNCHANGED sets
    /\ UNCHANGED <<env, player, conn, ec, now, lastId, rec, triggers, sk, dl, nDeliver, nEvent,
                   skips, posts, created, resolvedKeys, added>>

\* A re-read that also renews the TTL of the record it finds.
ReactRereadTouch(e, storeOk) ==
    /\ re[e].pc = "reread"
    /\ re' = [re EXCEPT ![e] =
                IF ~storeOk THEN Reject("store")
                ELSE IF ~getRecord(rec, re[e].ch, re[e].id).live
                  THEN [Reject("typeerror") EXCEPT !.found = "gone"]
                ELSE Ok200("present")]
    /\ rec' = IF storeOk /\ getRecord(rec, re[e].ch, re[e].id).live
                THEN [rec EXCEPT ![<<re[e].ch, re[e].id>>].exp = now + TTLTicks]
              ELSE rec
    /\ UNCHANGED <<env, player, conn, ec, now, lastId, sets, triggers, sk, dl, nDeliver, nEvent,
                   skips, posts, created, resolvedKeys, added>>

\* app.js 443-447: getSkipVote again, for the log line; the sizes are read
\* off its result, which is null when the record key is gone.
ReactReread(e, storeOk) ==
    /\ re[e].pc = "reread"
    /\ re' = [re EXCEPT ![e] =
                IF ~storeOk THEN Reject("store")
                ELSE IF ~getRecord(rec, re[e].ch, re[e].id).live
                  THEN [Reject("typeerror") EXCEPT !.found = "gone"]
                ELSE Ok200("present")]
    /\ UNCHANGED <<env, player, conn, ec, now, lastId, rec, sets, triggers, sk, dl, nDeliver, nEvent,
                   skips, posts, created, resolvedKeys, added>>

\* ------------------------------------------------------------------ clock
\* A key with a TTL that has not run out yet.
Pending ==
    \/ \E k \in Keys : rec[k].live /\ rec[k].exp > now
    \/ \E k \in Ids \X Pols : sets[k].exp # NoTTL /\ sets[k].exp > now

\* A tick passes; Redis drops every key whose TTL has run out. The clock
\* is followed for as long as a TTL is running.
Tick ==
    /\ Pending
    /\ now' = now + 1
    /\ rec' = [k \in Keys |->
                 IF rec[k].live /\ rec[k].exp <= now + 1 THEN NoRec ELSE rec[k]]
    /\ sets' = [k \in Ids \X Pols |->
                 IF sets[k].exp # NoTTL /\ sets[k].exp <= now + 1 THEN NoSet ELSE sets[k]]
    /\ dl' = Observe(dl, sets')
    /\ UNCHANGED <<env, player, conn, ec, lastId, triggers, sk, re, nDeliver, nEvent,
                   skips, posts, created, resolvedKeys, added>>

\* ----------------------------------------------------------------- player
\* The track that is playing ends and the next one of the queue starts.
TrackEnds(c) ==
    /\ player[c] < MaxTrack
    /\ player' = next(player, c)
    /\ UNCHANGED <<env, conn, ec, now, lastId, rec, sets, triggers, sk, dl, re,
                   nDeliver, nEvent, skips, posts, created, resolvedKeys, added>>

\* ------------------------------------------------------------- connection
\* A function that constructs a client at every call.
createRedisClientFresh(g) == [g EXCEPT !.clients = @ + 1, !.global = TRUE]

\* part_002 14-48: the client of global.__redisClient when there is one,
\* else a new Redis with lazyConnect, stored there.
createRedisClient(g) ==
    IF g.global THEN g
    ELSE [g EXCEPT !.clients = @ + 1, !.global = TRUE, !.status = "wait"]

\* A test that asks for a connect() whatever connectionPromise holds.
NeedsConnectAlways(promise) == TRUE

\* part_002 60: if (!connectionPromise)
NeedsConnect(promise) == promise = "null"

\* ioredis connect(): rejected at once while the client is connecting,
\* connected or ready.
Refused(status) == status \in {"connecting", "connect", "ready"}

\* createRedisClient() is evaluated once more in this process.
Load ==
    /\ conn.loads < MaxLoads
    /\ conn' = [createRedisClient(conn) EXCEPT !.loads = @ + 1]
    /\ UNCHANGED <<env, player, ec, now, lastId, rec, sets, triggers, sk, dl, re,
                   nDeliver, nEvent, skips, posts, created, resolvedKeys, added>>

\* part_002 55-70: ensureConnection up to its await. A ready client returns
\* at once; without a connectionPromise connect() is called, and its
\* rejection clears connectionPromise (62-66) and is thrown; the promise is
\* then awaited: a resolved one gives control back without any event in
\* between.
EnsureConnection(c) ==
    /\ ec[c].pc # "waiting"
    /\ conn.calls < MaxCalls
    /\ IF conn.status = "ready"
         THEN /\ ec' = [ec EXCEPT ![c] = [pc |-> "returned", status |-> conn.status]]
              /\ conn' = [conn EXCEPT !.calls = @ + 1]
       ELSE IF NeedsConnect(conn.promise)
         THEN IF Refused(conn.status)
                THEN /\ ec' = [ec EXCEPT ![c] = [pc |-> "thrown", status |-> conn.status]]
                     /\ conn' = [conn EXCEPT !.calls = @ + 1, !.connects = @ + 1,
                                             !.promise = "null", !.failed = TRUE]
              ELSE /\ ec' = [ec EXCEPT ![c] = [pc |-> "waiting", status |-> "none"]]
                   /\ conn' = [conn EXCEPT !.calls = @ + 1, !.connects = @ + 1,
                                           !.inflight = @ + 1, !.status = "connecting",
                                           !.promise = "pending", !.failed = FALSE]
       ELSE IF conn.promise = "pending"
         THEN /\ ec' = [ec EXCEPT ![c] = [pc |-> "waiting", status |-> "none"]]
              /\ conn' = [conn EXCEPT !.calls = @ + 1]
       ELSE /\ ec' = [ec EXCEPT ![c] = [pc |-> "returned", status |-> conn.status]]
            /\ conn' = [conn EXCEPT !.calls = @ + 1]
    /\ UNCHANGED <<env, player, now, lastId, rec, sets, triggers, sk, dl, re,
                   nDeliver, nEvent, skips, posts, created, resolvedKeys, added>>

\* ioredis: the socket is connected.
Established ==
    /\ conn.status = "connecting"
    /\ conn' = [conn EXCEPT !.status = "connect"]
    /\ UNCHANGED <<env, player, ec, now, lastId, rec, sets, triggers, sk, dl, re,
                   nDeliver, nEvent, skips, posts, created, resolvedKeys, added>>

\* ioredis emits 'ready': a connect() that was called resolves, and the
\* callers awaiting connectionPromise return (part_002 69).
Ready ==
    /\ conn.status = "connect"
    /\ conn' = [conn EXCEPT !.status = "ready", !.inflight = 0,
                            !.promise = IF conn.inflight > 0 THEN "resolved" ELSE @]
    /\ ec' = [c \in Callers |->
                IF ec[c].pc = "waiting" THEN [pc |-> "returned", status |-> "ready"]
                ELSE ec[c]]
    /\ UNCHANGED <<env, player, now, lastId, rec, sets, triggers, sk, dl, re,
                   nDeliver, nEvent, skips, posts, created, resolvedKeys, added>>

\* ioredis emits 'close' (connect failed, timed out, or the connection was
\* lost): a connect() that was called rejects, its catch clears
\* connectionPromise (part_002 62-66) and the awaiting callers throw; with
\* the retryStrategy of part_002 29-33 the client goes on to reconnect.
Close ==
    /\ conn.status \in {"connecting", "connect", "ready"}
    /\ conn.drops < MaxDrops
    /\ conn' = [conn EXCEPT !.status = "reconnecting", !.drops = @ + 1, !.inflight = 0,
                            !.promise = IF conn.inflight > 0 THEN "null" ELSE @,
                            !.failed = IF conn.inflight > 0 THEN TRUE ELSE @]
    /\ ec' = [c \in Callers |->
                IF ec[c].pc = "waiting" THEN [pc |-> "thrown", status |-> "reconnecting"]
                ELSE ec[c]]
    /\ UNCHANGED <<env, player, now, lastId, rec, sets, triggers, sk, dl, re,
                   nDeliver, nEvent, skips, posts, created, resolvedKeys, added>>

\* ioredis: the retry delay is over and the client connects again.
Retry ==
    /\ conn.status = "reconnecting"
    /\ conn' = [conn EXCEPT !.status = "connecting"]
    /\ UNCHANGED <<env, player, ec, now, lastId, rec, sets, triggers, sk, dl, re,
                   nDeliver, nEvent, skips, posts, created, resolvedKeys, added>>

\* ---------------------------------------------------------- specifications
\* The requests of a run: /skip is served by the instances S for the
\* channels C, /process-skip by D with the forged bodies F, reaction
\* events by E.
Handlers(S, C, D, F, E, maxD, maxE) ==
    \/ \E s \in S, c \in C, t \in Installed \cup Uninstalled, ok \in BOOLEAN,
          track \in {"playing", "nothing", "error"} : SkipBegin(s, c, t, ok, track)
    \/ \E s \in S, ok \in BOOLEAN : SkipPost(s, ok)
    \/ \E s \in S, ok \in BOOLEAN : SkipStore(s, ok)
    \/ \E s \in S, ok \in BOOLEAN : SkipPublish(s, ok)
    \/ \E d \in D, rq \in Genuine \cup F, ok \in BOOLEAN :
          nDeliver < maxD /\ DeliverStart(d, rq, ok)
    \/ \E d \in D, ok \in BOOLEAN : DeliverGet(d, ok)
    \/ \E d \in D, ok \in BOOLEAN : DeliverUp(d, ok)
    \/ \E d \in D, ok \in BOOLEAN : DeliverDown(d, ok)
    \/ \E d \in D, http \in {"ok", "error"} : DeliverSkip(d, http)
    \/ \E d \in D, ok \in BOOLEAN : DeliverPost(d, ok)
    \/ \E d \in D, ok \in BOOLEAN : DeliverDelete(d, ok)
    \/ \E e \in E, c \in C, ts \in S \cup {OtherTs},
          type \in {"reaction_added", "reaction_removed", "message"},
          ok \in BOOLEAN : nEvent < maxE /\ ReactFind(e, c, ts, type, ok)
    \/ \E e \in E, u \in Users, r \in Reactions, ok \in BOOLEAN : ReactApply(e, u, r, ok)
    \/ \E e \in E, ok \in BOOLEAN : ReactExpire(e, ok)
    \/ \E e \in E, ok \in BOOLEAN : ReactReread(e, ok)

\* The /skip requests and the reaction events of a run, with no delivery
\* of a trigger.
Unresolved(S, C, E, maxE) ==
    \/ \E s \in S, c \in C, t \in Installed \cup Uninstalled, ok \in BOOLEAN,
          track \in {"playing", "nothing", "error"} : SkipBegin(s, c, t, ok, track)
    \/ \E s \in S, ok \in BOOLEAN : SkipPost(s, ok)
    \/ \E s \in S, ok \in BOOLEAN : SkipStore(s, ok)
    \/ \E s \in S, ok \in BOOLEAN : SkipPublish(s, ok)
    \/ \E e \in E, c \in C, ts \in S \cup {OtherTs},
          type \in {"reaction_added", "reaction_removed", "message"},
          ok \in BOOLEAN : nEvent < maxE /\ ReactFind(e, c, ts, type, ok)
    \/ \E e \in E, u \in Users, r \in Reactions, ok \in BOOLEAN : ReactApply(e, u, r, ok)
    \/ \E e \in E, ok \in BOOLEAN : ReactExpire(e, ok)
    \/ \E e \in E, ok \in BOOLEAN : ReactReread(e, ok)

\* Requests that do not come from QStash: no signature, or one that does
\* not verify; for a vote of channel c1, for a channel that is not
\* connected, for a team that is not installed.
Forged ==
    [ch : {"c1"}, id : {1}, team : Installed, sig : {"missing", "invalid"}]
    \cup {[ch |-> "c0", id |-> 1, team |-> "T1", sig |-> "invalid"],
          [ch |-> "c1", id |-> 1, team |-> "T0", sig |-> "invalid"]}

InitConfigured == Init /\ env.receiver /\ env.qstash

\* One /skip, /process-skip requests served one after the other (QStash
\* redelivers after an answer), forged ones among them, and reaction events.
Next == Handlers({1}, {"c1", "c0"}, {1}, Forged, {1}, MaxDeliveries, MaxEvents)

Spec == Init /\ [][Next]_vars

\* One /skip and two /process-skip requests served concurrently.
NextRace == Handlers({1}, {"c1"}, Deliveries, {}, {1}, MaxRaceDeliveries, MaxRaceEvents)

SpecRace == InitConfigured /\ [][NextRace]_vars

\* One vote, a longer run of reaction events, and its resolution.
NextVotes == Handlers({1}, {"c1"}, {1}, {}, {1}, MaxDeliveries, MaxTallyEvents)

SpecVotes == InitConfigured /\ [][NextVotes]_vars

\* Signed and unsigned requests to /process-skip around one vote, with and
\* without the signing keys.
NextAuth == Handlers({1}, {"c1"}, {1}, Forged, {1}, MaxDeliveries, MaxRaceEvents)
SpecAuth == Init /\ [][NextAuth]_vars

\* The steps that follow a request's arrival: the continuations the event
\* loop runs once the awaited call has answered.
Continue(S, D, E) ==
    \/ \E s \in S, ok \in BOOLEAN : SkipPost(s, ok) \/ SkipStore(s, ok) \/ SkipPublish(s, ok)
    \/ \E d \in D, ok \in BOOLEAN :
          DeliverGet(d, ok) \/ DeliverUp(d, ok) \/ DeliverDown(d, ok)
          \/ DeliverPost(d, ok) \/ DeliverDelete(d, ok)
    \/ \E d \in D, http \in {"ok", "error"} : DeliverSkip(d, http)
    \/ \E e \in E, u \in Users, r \in Reactions, ok \in BOOLEAN : ReactApply(e, u, r, ok)
    \/ \E e \in E, ok \in BOOLEAN : ReactExpire(e, ok) \/ ReactReread(e, ok)

\* One vote with the clock running: reactions at different times, the TTLs
\* of the record and of the member sets, and at most one delivery.
NextExpiry ==
    \/ Handlers({1}, {"c1"}, {1}, {}, {1}, MaxExpiryDeliveries, MaxExpiryEvents)
    \/ Tick

SpecExpiry == InitConfigured /\ [][NextExpiry]_vars

\* The same, with time passing and every handler running to its end.
SpecExpiryFair ==
    SpecExpiry /\ WF_vars(Tick) /\ WF_vars(Continue({1}, {1}, {1}))

\* A request that QStash sends for a job it holds.
Arrive(D, maxD) ==
    \E d \in D, rq \in Genuine, ok \in BOOLEAN : nDeliver < maxD /\ DeliverStart(d, rq, ok)

\* One vote that is not resolved, with the clock running: reactions repeated
\* at different times.
NextIdem == Unresolved({1}, {"c1"}, {1}, MaxIdemEvents) \/ Tick

SpecIdem == InitConfigured /\ [][NextIdem]_vars

\* One vote in one channel with the clock, its delivery and a reaction event.
NextResolve ==
    \/ Handlers({1}, {"c1"}, {1}, {}, {1}, MaxResolveDeliveries, MaxResolveEvents)
    \/ Tick

SpecResolve == InitConfigured /\ [][NextResolve]_vars

\* The same run with time passing, every handler running to its end and
\* QStash delivering the jobs it was given.
SpecResolveFair ==
    /\ SpecResolve
    /\ WF_vars(Tick)
    /\ WF_vars(Continue({1}, {1}, {1}))
    /\ WF_vars(Arrive({1}, MaxResolveDeliveries))

\* One /skip in a connected channel or in one without a Spotify session,
\* with or without the QStash clients.
NextSkip == Handlers({1}, {"c1", "c0"}, {1}, {}, {1}, MaxSkipDeliveries, MaxSkipEvents)

SpecSkip == Init /\ [][NextSkip]_vars

\* One vote in one channel while the player goes through its queue.
NextPlayer ==
    \/ Handlers({1}, {"c1"}, {1}, {}, {1}, MaxPlayerDeliveries, MaxPlayerEvents)
    \/ TrackEnds("c1")

SpecPlayer == InitConfigured /\ [][NextPlayer]_vars

\* The connection of the process: callers of ensureConnection and the
\* events of the client.
NextConn ==
    \/ Load
    \/ \E c \in Callers : EnsureConnection(c)
    \/ Established
    \/ Ready
    \/ Close
    \/ Retry

SpecConn == InitConfigured /\ [][NextConn]_vars

\* Two /skip commands served concurrently, in one channel or in two, with
\* a reaction and a delivery.
NextPair ==
    Handlers(Skips, Connected, {1}, {}, {1}, MaxPairDeliveries, MaxPairEvents)

SpecPair == InitConfigured /\ [][NextPair]_vars

\* One vote, reaction events and one delivery.
NextReact == Handlers({1}, {"c1"}, {1}, {}, {1}, MaxReactDeliveries, MaxVoteEvents)

SpecReact == InitConfigured /\ [][NextReact]_vars

\* One vote, its delivery, and two reaction events: one that is applied and
\* one that is looked up after it.
NextLookup == Handlers({1}, {"c1"}, {1}, {}, {1}, MaxReactDeliveries, MaxTallyEvents)

SpecLookup == InitConfigured /\ [][NextLookup]_vars

\* Spec with the clock running.
NextTTL == Next \/ Tick

SpecTTL == Init /\ [][NextTTL]_vars

\* ------------------------------------------------------------------ claims
KeyOf(d) == <<dl[d].ch, dl[d].id>>

\* C1: however many /process-skip deliveries run for one vote, and however
\* their steps interleave, at most one of them resolves it: a vote created
\* once never has two deliveries that each announced an outcome without
\* any failure on the way.
C1_OneResolution ==
    \A k \in Keys : created[k] <= 1 =>
        Cardinality({d \in Deliveries : dl[d].pc # "idle" /\ KeyOf(d) = k
                                        /\ dl[d].msgs > 0 /\ dl[d].fault = "none"}) <= 1

\* C2: a delivery that arrives after another delivery deleted the vote never
\* finds the record, sends no skip command, posts no announcement and
\* writes nothing; having found the record absent it answers 200.
C2_LaterDeliveryNoOp ==
    \A d \in Deliveries :
        (dl[d].late /\ created[KeyOf(d)] <= 1) =>
            /\ dl[d].loaded # "present"
            /\ dl[d].cmds = 0 /\ dl[d].msgs = 0 /\ dl[d].writes = 0
            /\ (dl[d].pc = "done" /\ dl[d].loaded = "absent" => dl[d].resp = "200")

C2_Witness ==
    \E d \in Deliveries :
        dl[d].late /\ dl[d].pc = "done" /\ dl[d].loaded = "absent" /\ dl[d].resp = "200"

\* C3: over all deliveries for one vote, redeliveries after a 500 included,
\* the skip command is sent to Spotify at most once.
C3_SkipAtMostOnce == \A k \in Keys : created[k] <= 1 => skips[k] <= 1

\* C4: a delivery whose outcome announcement failed has still deleted the
\* record and both member sets.
C4_PostFailureStillDeletes ==
    \A d \in Deliveries :
        (dl[d].pc = "done" /\ dl[d].fault = "slack") =>
            /\ ~getRecord(rec, dl[d].ch, dl[d].id).live
            /\ smembers(sets, dl[d].id, "up") = {}
            /\ smembers(sets, dl[d].id, "down") = {}

\* C5: a failed skip command does not stop the resolution: the handler goes
\* on to the announcement, and unless the announcement or the delete fails
\* in its turn it announces the counts it decided on, deletes the vote and
\* answers 200.
C5_SkipFailureStillCleansUp ==
    \A d \in Deliveries :
        dl[d].skipRes = "error" =>
            /\ dl[d].fault # "spotify"
            /\ dl[d].snap[2] > dl[d].snap[1]
            /\ (dl[d].pc = "done" /\ dl[d].fault = "none") =>
                  /\ dl[d].msgs = 1 /\ dl[d].tally = dl[d].snap
                  /\ dl[d].deleted /\ dl[d].resp = "200"

C5_Witness ==
    \E d \in Deliveries :
        /\ dl[d].skipRes = "error" /\ dl[d].pc = "done" /\ dl[d].resp = "200"
        /\ dl[d].msgs = 1 /\ dl[d].deleted /\ ~getRecord(rec, dl[d].ch, dl[d].id).live

\* C6: with the counts (up, down) of the snapshot, the skip command is sent
\* and the outcome is "skipped" exactly when down > up; otherwise the
\* outcome is "kept" and no skip command is sent, ties included.
C6_DecisionRule ==
    \A d \in Deliveries :
        dl[d].snap # <<>> =>
            IF dl[d].snap[2] > dl[d].snap[1]
              THEN IF dl[d].pc = "skip" THEN dl[d].cmds = 0 /\ dl[d].outcome = "none"
                   ELSE dl[d].cmds = 1 /\ dl[d].outcome = "skipped"
            ELSE dl[d].cmds = 0 /\ dl[d].outcome = "kept"

C6_Witness ==
    \E d \in Deliveries :
        dl[d].snap = <<1, 1>> /\ dl[d].outcome = "kept" /\ dl[d].msgs = 1

\* C7: while a vote's record is in the store, each polarity's set has as
\* many members as there are users whose last reaction event of that
\* polarity applied to the vote was an add.
C7_CountIsDistinctUsers ==
    \A k \in Keys : rec[k].live =>
        \A p \in Pols :
            Cardinality(smembers(sets, k[2], p)) = Cardinality(added[<<k[1], k[2], p>>])

C7_Witness ==
    /\ rec[<<"c1", 1>>].live /\ nEvent = 3
    /\ re[1].pc = "done" /\ re[1].resp = "200" /\ re[1].found = "present"
    /\ smembers(sets, 1, "up") = {} /\ smembers(sets, 1, "down") = {"u2"}

\* C8 as stated: a request that QStash did not send is answered 401 before
\* any store access, skip command or announcement.
C8_UnauthenticatedRejected ==
    \A d \in Deliveries :
        (dl[d].pc # "idle" /\ ~dl[d].genuine) =>
            /\ dl[d].resp = "401"
            /\ dl[d].reads = 0 /\ dl[d].writes = 0 /\ dl[d].cmds = 0 /\ dl[d].msgs = 0

\* C8 amended: when the signing keys are configured, a request that QStash
\* did not send is answered 401 before any store access, skip command or
\* announcement.
C8_RejectedWhenConfigured ==
    \A d \in Deliveries :
        (env.receiver /\ dl[d].pc # "idle" /\ ~dl[d].genuine) =>
            /\ dl[d].resp = "401"
            /\ dl[d].reads = 0 /\ dl[d].writes = 0 /\ dl[d].cmds = 0 /\ dl[d].msgs = 0

C8_Witness ==
    \E d \in Deliveries :
        /\ env.receiver /\ dl[d].pc = "done" /\ ~dl[d].genuine /\ dl[d].resp = "401"
        /\ getRecord(rec, dl[d].ch, dl[d].id).live

\* C9: a store fault is never answered 200 and an absent vote always is:
\* for /process-skip at the load, for /emoji-callback at the correlation
\* and at the read that follows the apply.
C9_FaultIsNotAbsence ==
    /\ \A d \in Deliveries : dl[d].pc = "done" =>
          /\ dl[d].fault = "store" => dl[d].resp = "500"
          /\ dl[d].loaded = "absent" => dl[d].resp = "200"
    /\ \A e \in Reacts : re[e].pc = "done" =>
          /\ re[e].fault = "store" => re[e].resp # "200"
          /\ re[e].found \in {"absent", "gone"} => re[e].resp = "200"

\* C10: a reaction handler none of whose store calls failed does not throw:
\* it answers 200, also when the vote was deleted while it ran.
C10_StaleReactionAcknowledged ==
    \A e \in Reacts :
        (re[e].pc = "done" /\ re[e].fault # "store") => re[e].resp = "200"

\* C11: once a delivery has deleted a vote, the store holds no key of that
\* vote: neither the record nor a member set, whatever reaction handling
\* was in flight.
C11_NoKeyAfterDelete ==
    \A k \in resolvedKeys :
        /\ ~rec[k].live
        /\ smembers(sets, k[2], "up") = {} /\ smembers(sets, k[2], "down") = {}

NoLiveMatch(c, ts) ==
    \A i \in Ids : <<c, i>> \in Keys => ~(rec[<<c, i>>].live /\ rec[<<c, i>>].messageTs = ts)

\* C12: a reaction event on a message that is the announcement of no live
\* vote of its channel is answered 200 and leaves every record, member set
\* and TTL as it was.
C12_UnmatchedReactionIgnored ==
    [][nEvent' = nEvent + 1 =>
          \A e \in Reacts, c \in Connected \cup Unconnected, ts \in MessageTs,
             type \in {"reaction_added", "reaction_removed"} :
              (NoLiveMatch(c, ts) /\ ReactFind(e, c, ts, type, TRUE)) =>
                  /\ re'[e].pc = "done" /\ re'[e].resp = "200"
                  /\ rec' = rec /\ sets' = sets]_vars

C12_Witness ==
    \E e \in Reacts :
        /\ re[e].pc = "done" /\ re[e].found = "absent" /\ re[e].resp = "200"
        /\ rec[<<"c1", 1>>].live /\ smembers(sets, 1, "down") # {}

\* C13: the tally announced is the pair of counts the decision was made on,
\* whatever reactions were applied to the sets after they were read.
C13_FrozenCount ==
    \A d \in Deliveries :
        dl[d].msgs > 0 =>
            /\ dl[d].tally = dl[d].snap
            /\ dl[d].outcome = (IF dl[d].snap[2] > dl[d].snap[1] THEN "skipped" ELSE "kept")

C13_Witness ==
    \E d \in Deliveries :
        /\ dl[d].pc = "delete" /\ dl[d].msgs = 1 /\ dl[d].outcome = "kept"
        /\ dl[d].tally = <<0, 0>>
        /\ smembers(sets, dl[d].id, "down") # {}

AllAbsent ==
    /\ \A k \in Keys : ~rec[k].live
    /\ \A k \in Ids \X Pols : sets[k].members = {}

\* C14: when no /process-skip request is ever delivered, the record key and
\* both member set keys are eventually absent from the store, and remain
\* absent.
C14_KeysEventuallyExpire == ([](nDeliver = 0)) => <>[]AllAbsent

\* C15: no member set of a vote is in the store once the vote's record key
\* has expired. A record that was written, is absent and was not deleted by
\* a delivery has expired; the sets looked at are those whose own TTL is
\* running, at a time when no reaction handler is at work.
C15_KeysExpireTogether ==
    \A k \in Keys :
        (/\ created[k] > 0 /\ ~rec[k].live /\ k \notin resolvedKeys
         /\ \A e \in Reacts : re[e].pc \in {"idle", "done"}) =>
            \A p \in Pols : sets[<<k[2], p>>].exp = NoTTL

\* C19 as stated: an add of a user who is in the set already, and a remove
\* of a user who is not in it, leave the whole store as it was, TTLs
\* included. reply = 0 is Redis saying that no member was added or removed;
\* the set added to is one that has its TTL.
C19_MembershipIdempotent ==
    [][\A e \in Reacts :
          /\ (re[e].pc = "apply" /\ re'[e].pc \in {"expire", "reread"}
              /\ re'[e].pol # "none" /\ re'[e].reply = 0) =>
                 (sets' = sets /\ rec' = rec)
          /\ (re[e].pc = "expire" /\ re'[e].pc = "reread" /\ re[e].reply = 0
              /\ sets[<<re[e].id, re[e].pol>>].exp # NoTTL) =>
                 (sets' = sets /\ rec' = rec)]_vars

\* C19 amended: an add of a user who is in the set already leaves the
\* members of every set and every record as they were, and only renews the
\* TTL of the set added to, if that set is still there; a remove of a user who is not in the set leaves
\* the whole store as it was.
C19_MembersIdempotent ==
    [][\A e \in Reacts :
          /\ (re[e].pc = "apply" /\ re'[e].pc \in {"expire", "reread"}
              /\ re'[e].pol # "none" /\ re'[e].reply = 0) =>
                 (sets' = sets /\ rec' = rec)
          /\ (re[e].pc = "expire" /\ re'[e].pc = "reread" /\ re[e].reply = 0) =>
                 /\ rec' = rec
                 /\ \A k \in Ids \X Pols :
                       /\ sets'[k].members = sets[k].members
                       /\ k # <<re[e].id, re[e].pol>> => sets'[k] = sets[k]
                 /\ sets[<<re[e].id, re[e].pol>>].members # {} =>
                       sets'[<<re[e].id, re[e].pol>>].exp = now + TTLTicks]_vars

C19_Witness ==
    \E e \in Reacts :
        /\ re[e].pc = "reread" /\ re[e].type = "reaction_added" /\ re[e].reply = 0
        /\ re[e].pol # "none"
        /\ now > 0 /\ rec[<<re[e].ch, re[e].id>>].live
        /\ sets[<<re[e].id, re[e].pol>>] = [members |-> {"u1"}, exp |-> now + TTLTicks]

\* C16: the members counted for a live vote are users who reacted to that
\* vote: a vote written once has in its sets only users whose reaction
\* event was applied to it, never those of a vote of another channel.
C16_VotesIsolated ==
    \A k \in Keys :
        (rec[k].live /\ created[k] = 1) =>
            \A p \in Pols : smembers(sets, k[2], p) \subseteq added[<<k[1], k[2], p>>]

\* C17: no two /skip commands of one channel obtain the same id: no record
\* key is written by setSkipVote twice.
C17_IdsUnique == \A k \in Keys : created[k] <= 1

Other(p) == IF p = "up" THEN "down" ELSE "up"

\* C18: a reaction event acts on the set of the polarity its reaction name
\* is an alias of ('+1', 'thumbsup', 'thumbs_up' up; '-1', 'thumbsdown',
\* 'thumbs_down' down): an add puts the user in that set, a remove takes
\* the user out. An event with any other reaction name leaves every member
\* set, every TTL and every record as it was.
C18_OnlyAliasesAct ==
    [][\A e \in Reacts :
          (re[e].pc = "apply" /\ re'[e].pc # "apply") =>
            \A u \in Users, r \in Reactions :
              ReactApply(e, u, r, TRUE) =>
                IF r \in {"+1", "thumbsup", "thumbs_up", "-1", "thumbsdown", "thumbs_down"}
                  THEN LET p == IF r \in {"+1", "thumbsup", "thumbs_up"} THEN "up" ELSE "down"
                       IN  /\ (u \in smembers(sets', re[e].id, p))
                                  = (re[e].type = "reaction_added")
                           /\ re'[e].pol = p
                ELSE sets' = sets /\ rec' = rec /\ re'[e].pol = "none"]_vars

C18_Witness ==
    \E e \in Reacts :
        /\ re[e].pc = "reread" /\ re[e].pol = "none" /\ re[e].found = "present"
        /\ nEvent = 2
        /\ smembers(sets, re[e].id, "up") = {}
        /\ smembers(sets, re[e].id, "down") = {"u2"}

\* C20: a reaction event of one polarity leaves the set of the other
\* polarity as it was, so that a user can be in both sets at once and is
\* then counted once in each tally.
C20_PolaritiesIndependent ==
    /\ [][\A e \in Reacts :
            (re[e].pc \in {"apply", "expire"} /\ re'[e] # re[e] /\ re'[e].pol # "none") =>
                \A i \in Ids : sets'[<<i, Other(re'[e].pol)>>] = sets[<<i, Other(re'[e].pol)>>]]_vars
    /\ [](\A d \in Deliveries : dl[d].snap # <<>> /\ dl[d].pc \in {"skip", "post"} =>
            dl[d].snap = <<Cardinality(dl[d].up), Cardinality(dl[d].down)>>)

C20_Witness ==
    \E d \in Deliveries :
        /\ dl[d].pc = "post" /\ dl[d].up = {"u1"} /\ dl[d].down = {"u1"}
        /\ dl[d].snap = <<1, 1>>

\* C21: resolution sets the resolved flag: once a delivery has made its
\* decision, the record of its vote, while it is in the store, says
\* resolved = true.
C21_ResolvedSetByResolution ==
    \A d \in Deliveries :
        dl[d].pc \in {"skip", "post", "delete"} =>
            \/ ~getRecord(rec, dl[d].ch, dl[d].id).live
            \/ getRecord(rec, dl[d].ch, dl[d].id).resolved

\* C22: the correlation of a reaction event changes nothing in the store,
\* and the event goes on to be applied to a vote exactly when a live,
\* unresolved record of the event's channel carries the event's message
\* ts; the vote it is applied to is such a record.
C22_CorrelationLookup ==
    [][nEvent' = nEvent + 1 =>
         \A e \in Reacts, c \in Connected \cup Unconnected, ts \in MessageTs,
            type \in {"reaction_added", "reaction_removed"} :
          ReactFind(e, c, ts, type, TRUE) =>
              /\ rec' = rec /\ sets' = sets
              /\ (re'[e].pc = "apply") =
                    (\E i \in Ids : /\ <<c, i>> \in Keys
                                    /\ rec[<<c, i>>].live /\ ~rec[<<c, i>>].resolved
                                    /\ rec[<<c, i>>].messageTs = ts)
              /\ re'[e].pc = "apply" =>
                    /\ re'[e].ch = c
                    /\ rec[<<c, re'[e].id>>].live /\ ~rec[<<c, re'[e].id>>].resolved
                    /\ rec[<<c, re'[e].id>>].messageTs = ts
              /\ re'[e].pc # "apply" => re'[e].pc = "done" /\ re'[e].resp = "200"]_vars

C22_Witness ==
    \E e \in Reacts :
        /\ re[e].pc = "apply" /\ re[e].found = "present"
        /\ getRecord(rec, re[e].ch, re[e].id).live
        /\ getRecord(rec, re[e].ch, re[e].id).messageTs = 1
        /\ smembers(sets, re[e].id, "up") # {}

\* C23: the step that creates a vote leaves it with resolved = false, a
\* record TTL of SKIP_VOTE_TTL, and both member sets empty.
C23_FreshVoteIsEmpty ==
    [][\A s \in Skips :
          (sk[s].pc = "store" /\ sk'[s].pc = "publish") =>
              LET k == <<sk[s].ch, sk[s].id>>
              IN  /\ rec'[k].live /\ ~rec'[k].resolved
                  /\ rec'[k].exp = now + TTLTicks
                  /\ smembers(sets', k[2], "up") = {}
                  /\ smembers(sets', k[2], "down") = {}]_vars

\* No call to the store, to Slack or to QStash has failed in a handler.
NoFailure ==
    /\ \A s \in Skips : sk[s].resp # "failed"
    /\ \A d \in Deliveries : dl[d].fault \notin {"store", "slack", "team"}
    /\ \A e \in Reacts : re[e].fault # "store"

\* The record of a vote is in the store until a delivery has loaded it.
Timely ==
    \A k \in Keys :
        (created[k] > 0 /\ k \notin resolvedKeys
         /\ \A d \in Deliveries : dl[d].loaded # "present") => rec[k].live

\* C24: when no call fails and the record is still there when the delivery
\* loads it, every vote created ends up resolved: one outcome announcement
\* was posted for it, and its record and member sets are gone for good.
C24_EveryVoteResolved ==
    ([]NoFailure /\ []Timely) =>
        <>[](\A k \in Keys : created[k] > 0 =>
                /\ posts[k] = 1
                /\ ~rec[k].live
                /\ smembers(sets, k[2], "up") = {} /\ smembers(sets, k[2], "down") = {})

C24_Witness ==
    /\ created[<<"c1", 1>>] = 1 /\ posts[<<"c1", 1>>] = 1 /\ skips[<<"c1", 1>>] = 1
    /\ <<"c1", 1>> \in resolvedKeys /\ AllAbsent
    /\ dl[1].pc = "done" /\ dl[1].deleted /\ dl[1].fault = "none"
    /\ sk[1].resp = "started"

\* C25: within one resolution the skip command, if any, is issued before the
\* outcome announcement is posted, and the record and its sets are deleted
\* only after the announcement; a resolution that deletes has already
\* performed its side effect and posted its announcement.
C25_ResolutionOrder ==
    [][\A d \in Deliveries :
          /\ dl'[d].cmds > dl[d].cmds => dl[d].msgs = 0 /\ ~dl[d].deleted
          /\ dl'[d].msgs > dl[d].msgs =>
                /\ ~dl[d].deleted
                /\ dl[d].outcome = "skipped" => dl[d].cmds = 1
                /\ dl[d].outcome = "kept" => dl[d].cmds = 0
          /\ (dl'[d].deleted /\ ~dl[d].deleted) =>
                /\ dl[d].msgs = 1
                /\ dl[d].outcome = "skipped" => dl[d].cmds = 1
                /\ dl[d].outcome = "kept" => dl[d].cmds = 0]_vars

C25_Witness ==
    \E d \in Deliveries :
        /\ dl[d].pc = "done" /\ dl[d].deleted /\ dl[d].outcome = "skipped"
        /\ dl[d].cmds = 1 /\ dl[d].msgs = 1
        /\ skips[KeyOf(d)] = 1 /\ posts[KeyOf(d)] = 1 /\ ~rec[KeyOf(d)].live

\* C26: every record in the store carries the reference of the announcement
\* posted for it, never an empty one, and the trigger of a vote is scheduled
\* only after that record was written, so that no delivery of a trigger
\* comes before the record existed.
C26_ReferenceAndTriggerOrder ==
    /\ [](\A k \in Keys : rec[k].live => rec[k].messageTs \in Skips)
    /\ [](\A j \in triggers : created[<<j.ch, j.id>>] > 0)
    /\ [](\A d \in Deliveries : dl[d].genuine => created[KeyOf(d)] > 0)
    /\ [][\A s \in Skips :
             /\ (sk[s].pc = "store" /\ sk'[s].pc = "publish") =>
                   /\ sk[s].ts = s
                   /\ rec'[<<sk[s].ch, sk[s].id>>].messageTs = sk[s].ts
             /\ (sk[s].pc = "publish" /\ triggers' # triggers) =>
                   created[<<sk[s].ch, sk[s].id>>] > 0]_vars

C26_Witness ==
    \E d \in Deliveries :
        /\ dl[d].genuine /\ dl[d].loaded = "present" /\ dl[d].pc = "up"
        /\ rec[KeyOf(d)].live /\ rec[KeyOf(d)].messageTs = 1
        /\ sk[1].resp = "started" /\ created[KeyOf(d)] = 1

\* C27: the record of a vote does not change after its creation: handling a
\* reaction, the correlation lookup included, neither writes the record key
\* nor renews its TTL; only creation writes it, and only resolution or the
\* end of its TTL removes it.
C27_RecordImmutable ==
    [][/\ \A k \in Keys :
            rec'[k] # rec[k] =>
                \/ /\ created'[k] = created[k] + 1
                   /\ \E s \in Skips : sk[s].pc = "store" /\ sk'[s].pc = "publish"
                   /\ rec'[k].live
                \/ /\ \E d \in Deliveries :
                         KeyOf(d) = k /\ dl[d].pc = "delete" /\ dl'[d].deleted
                   /\ rec'[k] = NoRec
                \/ /\ now' = now + 1 /\ rec[k].exp <= now'
                   /\ rec'[k] = NoRec
       /\ re' # re => rec' = rec]_vars

C27_Witness ==
    /\ now = 1 /\ re[1].pc = "done" /\ re[1].fault = "none"
    /\ rec[<<"c1", 1>>].live /\ rec[<<"c1", 1>>].exp = TTLTicks
    /\ rec[<<"c1", 1>>].messageTs = 1
    /\ sets[<<1, "up">>].members = {"u1"} /\ sets[<<1, "up">>].exp = 1 + TTLTicks

\* The answers of /skip to a command whose precondition fails.
Refusals == {"not_connected", "no_qstash", "no_track"}

\* C28: a /skip whose precondition fails (channel without a Spotify session,
\* no QStash client, nothing playing) creates nothing: it posts no
\* announcement, writes no record and schedules no trigger.
C28_RefusedSkipCreatesNothing ==
    /\ [][\A s \in Skips :
             (sk[s].pc = "idle" /\ sk'[s].pc # "idle") =>
                \A c \in Connected \cup Unconnected, t \in Installed,
                   track \in {"playing", "nothing", "error"} :
                    (/\ c \notin Connected \/ ~env.qstash \/ track = "nothing"
                     /\ SkipBegin(s, c, t, TRUE, track)) =>
                        /\ sk'[s].pc = "done" /\ sk'[s].ts = OtherTs
                        /\ UNCHANGED <<rec, sets, triggers, created, lastId>>]_vars
    /\ [](\A s \in Skips :
             sk[s].resp \in Refusals =>
                /\ sk[s].pc = "done"
                /\ triggers = {}
                /\ \A k \in Keys : created[k] = 0 /\ rec[k] = NoRec)

C28_Witness ==
    /\ ~env.qstash /\ sk[1].pc = "done" /\ sk[1].resp = "no_qstash"
    /\ triggers = {} /\ \A k \in Keys : created[k] = 0 /\ ~rec[k].live

\* C29: the tally a resolution decides on is a snapshot: the pair of counts
\* read by the load equals the sizes the two member sets had in the store at
\* one instant between the start of the load and the decision, whatever
\* reaction events run in between. Stated for the resolutions during which
\* every command of every reaction handler has succeeded.
C29_TallyIsSnapshot ==
    [][\A d \in Deliveries :
          (/\ dl[d].pc = "down" /\ dl'[d].pc \in {"post", "skip"}
           /\ \A k \in Ids \X Pols :
                 (sets[k].members # {} /\ sets[k].exp = NoTTL) =>
                     \E e \in Reacts :
                         re[e].pc = "expire" /\ re[e].id = k[1] /\ re[e].pol = k[2]) =>
              dl'[d].snap \in dl[d].seen]_vars

\* C30: every member set key in the store carries a TTL, also after a
\* handler has failed or stopped between its SADD and its EXPIRE; no member
\* set stays without expiry. Stated for the states in which no reaction
\* handler is between its two commands.
C30_EverySetHasTTL ==
    (\A e \in Reacts : re[e].pc \in {"idle", "done"}) =>
        \A k \in Ids \X Pols : sets[k].members # {} => sets[k].exp # NoTTL

\* C31: whenever a resolution issues the skip command for a vote, the track
\* playing at that moment is the track recorded in the vote at its creation;
\* a vote never makes another track be skipped.
C31_SkipsRecordedTrack ==
    [][\A d \in Deliveries :
          (dl[d].pc = "skip" /\ dl'[d].cmds = dl[d].cmds + 1) =>
              player[dl[d].ch] = dl[d].trackName]_vars

\* C32: the connection is one per process: at most one client is ever
\* constructed, the callers of ensureConnection share one connect() call
\* (never two of them unsettled), and after a connect() that was rejected
\* the next call that finds the client not ready calls connect() again.
C32_SingletonConnection ==
    /\ [](conn.clients <= 1 /\ conn.inflight <= 1)
    /\ [](conn.inflight = 1 <=> conn.promise = "pending")
    /\ [](conn.failed => conn.promise = "null")
    /\ [][conn'.calls = conn.calls + 1 =>
            /\ conn.promise = "pending" =>
                  /\ conn'.connects = conn.connects
                  /\ \E c \in Callers : ec[c].pc # "waiting" /\ ec'[c].pc = "waiting"
            /\ (conn.failed /\ conn.status # "ready") =>
                  conn'.connects = conn.connects + 1]_vars
    /\ [][(conn.inflight = 1 /\ conn'.inflight = 0 /\ conn'.status # "ready") =>
            conn'.promise = "null" /\ conn'.failed]_vars

C32_Witness ==
    /\ conn.clients = 1 /\ conn.loads = 2
    /\ conn.drops = 1 /\ conn.connects = 2 /\ conn.inflight = 1
    /\ \A c \in Callers : ec[c].pc = "waiting"

\* C33: ensureConnection returns normally only when the client is ready,
\* whatever connects, failures and losses of the connection came before.
C33_ReturnsOnlyWhenReady ==
    \A c \in Callers : ec[c].pc = "returned" => ec[c].status = "ready"

====
